---------------------------- MODULE Spec2Model ----------------------------
(***************************************************************************)
(* MMM-GitPushy: the node helper's fetch / cache / aggregation engine      *)
(* (src/unnamed/part_000, the node_helper) and the pure functions of its   *)
(* merge pipeline.                                                         *)
(*                                                                         *)
(* Five specifications share this module:                                  *)
(*   SpecRepo   uniquePulls and the draft filter of fetchRepoPulls, applied *)
(*              to every bounded concatenated pull list of one target;      *)
(*   SpecMerge  the per-target cut, the sort and the global cut of          *)
(*              fetchAllTargets, applied to bounded per-target results;     *)
(*   Spec       the engine: registrations, timers, runs suspended on        *)
(*              network requests, the two caches and the rate-limit state;  *)
(*   SpecBranches, SpecCache                                                *)
(*              the engine started with other config.js files: targets in   *)
(*              the three branch modes; one repository listed twice.        *)
(***************************************************************************)
EXTENDS Integers, Sequences, FiniteSets, TLC

VARIABLES
    \* ---- SpecRepo: one target's list pipeline (fetchRepoPulls 313-337)
    r_pc, r_includeDrafts, r_pulls, r_unique, r_filtered,
    \* ---- SpecMerge: fetchAllTargets 287-303
    m_pc, m_limits, m_prs, m_results, m_out,
    \* ---- Spec: the node helper (start 177-183) and its environment
    instances,      \* this.instances: instanceId -> normalized config (+ lastData)
    timers,         \* this.timers: instanceId -> {timer, interval}
    httpCache,      \* this.httpCache: cacheKey -> {data, etag, fetchedAt}
    repoMetaCache,  \* this.repoMetaCache: owner/repo -> {defaultBranch, fetchedAt}
    backoffUntil,   \* this.backoffUntil
    intervals,      \* the runtime's live setInterval timers: handle -> closure, period, due
    nextHandle,     \* the next timer handle setInterval returns
    runs,           \* the fetchAndSend calls suspended on a network request
    now,            \* Date.now()
    event,          \* the handler that ran last: what it received, sent and requested
    msgs,           \* socket notifications received so far
    fetches,        \* calls of fetch() so far
    lastGood,       \* per instance, the list of its latest GITPUSHY_DATA
    configJs,       \* which config.js the mirror was started with
    display         \* the display instances (MMM-GitPushy.js): prs, error, loaded

rvars == <<r_pc, r_includeDrafts, r_pulls, r_unique, r_filtered>>
mvars == <<m_pc, m_limits, m_prs, m_results, m_out>>
evars == <<instances, timers, httpCache, repoMetaCache, backoffUntil, intervals,
           nextHandle, runs, now, event, msgs, fetches, lastGood, configJs, display>>
vars == <<rvars, mvars, evars>>

---------------------------------------------------------------------------
(* Bounds of the pure-function specifications.                             *)

\* longest concatenated pull list given to uniquePulls
MaxPulls == 3
\* most pull requests one target hands to fetchAllTargets
MaxRepoPrs == 2

---------------------------------------------------------------------------
(* Values.                                                                 *)

Min(a, b) == IF a < b THEN a ELSE b
Max(a, b) == IF a > b THEN a ELSE b

\* updated_at strings of the list payloads, and what
\* new Date(s).getTime() makes of them (milliseconds since the epoch,
\* counted here in days since 2024-01-01)
Stamps == {"2024-01-01T00:00:00Z", "2024-01-02T00:00:00Z", "2024-01-03T00:00:00Z"}

DateGetTime(s) ==
    CASE s = "2024-01-01T00:00:00Z" -> 0
      [] s = "2024-01-02T00:00:00Z" -> 86400000
      [] s = "2024-01-03T00:00:00Z" -> 172800000

\* sequences over S of length at most n
RECURSIVE SeqsUpTo(_, _)
SeqsUpTo(S, n) ==
    IF n = 0 THEN {<<>>}
    ELSE LET shorter == SeqsUpTo(S, n - 1)
         IN  shorter \cup {Append(s, x) : s \in shorter, x \in S}

\* Array.prototype.slice(0, end)
ArraySlice(arr, end) ==
    LET n == Len(arr)
        e == IF end < 0 THEN Max(n + end, 0) ELSE Min(end, n)
    IN  SubSeq(arr, 1, e)

---------------------------------------------------------------------------
(* uniquePulls (422-434): forEach over the list with a Set of seen numbers. *)

RECURSIVE uniqueFrom(_, _, _)
uniqueFrom(pulls, seen, unique) ==
    IF pulls = <<>> THEN unique
    ELSE LET pr == Head(pulls)
         IN  IF pr.number \in seen
             THEN uniqueFrom(Tail(pulls), seen, unique)
             ELSE uniqueFrom(Tail(pulls), seen \cup {pr.number}, Append(unique, pr))

\* a plausible slip: a later duplicate overwrites the kept entry
RECURSIVE uniqueLastWins(_)
uniqueLastWins(pulls) ==
    IF pulls = <<>> THEN <<>>
    ELSE LET pr == Head(pulls)
             rest == uniqueLastWins(Tail(pulls))
         IN  IF \E i \in 1..Len(rest) : rest[i].number = pr.number
             THEN rest
             ELSE <<pr>> \o rest

uniquePullsLastWins(pulls) == uniqueLastWins(pulls)

uniquePulls(pulls) == uniqueFrom(pulls, {}, <<>>)

\* a plausible slip: the filter keeps every pull request
draftFilterKeepAll(unique, includeDrafts) == unique

\* the draft filter of fetchRepoPulls (332-337)
draftFilter(unique, includeDrafts) ==
    SelectSeq(unique, LAMBDA pr : ~(~includeDrafts /\ pr.draft))

---------------------------------------------------------------------------
(* fetchAllTargets (287-303).                                              *)

\* the comparator of results.sort (296-300)
compareUpdated(a, b) == DateGetTime(b.updated_at) - DateGetTime(a.updated_at)

\* Array.prototype.sort with a comparator: stable (ECMAScript 2019, V8 7.0).
\* x goes after the last element that does not compare greater than it.
RECURSIVE sortInsert(_, _)
sortInsert(sorted, x) ==
    IF sorted = <<>> THEN <<x>>
    ELSE LET last == sorted[Len(sorted)]
         IN  IF compareUpdated(last, x) <= 0
             THEN Append(sorted, x)
             ELSE Append(sortInsert(SubSeq(sorted, 1, Len(sorted) - 1), x), last)

RECURSIVE sortFrom(_, _)
sortFrom(rest, sorted) ==
    IF rest = <<>> THEN sorted
    ELSE sortFrom(Tail(rest), sortInsert(sorted, Head(rest)))

\* a plausible slip: the comparator's operands swapped (ascending order)
RECURSIVE sortInsertAsc(_, _)
sortInsertAsc(sorted, x) ==
    IF sorted = <<>> THEN <<x>>
    ELSE LET last == sorted[Len(sorted)]
         IN  IF compareUpdated(x, last) <= 0
             THEN Append(sorted, x)
             ELSE Append(sortInsertAsc(SubSeq(sorted, 1, Len(sorted) - 1), x), last)

RECURSIVE sortFromAsc(_, _)
sortFromAsc(rest, sorted) ==
    IF rest = <<>> THEN sorted
    ELSE sortFromAsc(Tail(rest), sortInsertAsc(sorted, Head(rest)))

sortResultsAsc(results) == sortFromAsc(results, <<>>)

sortResults(results) == sortFrom(results, <<>>)

\* a plausible slip: the per-target cut left out (292)
limitPerRepoNone(prs, maxPerRepo) == prs

\* const limited = prs.slice(0, config.limits.maxPerRepo)  (292)
limitPerRepo(prs, maxPerRepo) == ArraySlice(prs, maxPerRepo)

\* return sorted.slice(0, config.limits.maxTotal)  (302)
limitTotal(sorted, maxTotal) == ArraySlice(sorted, maxTotal)

---------------------------------------------------------------------------
(* The node helper: configuration.                                         *)

\* JavaScript null / undefined / a header that is absent
Null == "<null>"

\* the display instances of the mirror
InstanceIds == {"module_1", "module_2"}

\* DEFAULT_CONFIG (132-174), the keys the engine reads
DefaultUpdateIntervalMs == 300000
DefaultMaxTotal == 20
DefaultMaxPerRepo == 10

DEFAULT_CONFIG ==
    [token |-> Null, tokenEnvVar |-> "GITHUB_TOKEN", targets |-> <<>>,
     includeDrafts |-> TRUE, maxTotal |-> DefaultMaxTotal,
     maxPerRepo |-> DefaultMaxPerRepo, updateIntervalMs |-> DefaultUpdateIntervalMs,
     backoffOnRateLimit |-> TRUE, showOnAuthError |-> TRUE,
     \* not a key of DEFAULT_CONFIG: applyDefaults copies it from the payload
     \* when the payload has it (572-576), <<>> when it has not
     listCacheTtlMs |-> <<>>]

\* applyDefaults (552-580) on the keys above: a key the payload leaves
\* undefined (written <<>> here, <<v>> when it is given) takes the default
applyDefaults(config, defaults) ==
    [k \in DOMAIN defaults |->
        IF k = "listCacheTtlMs" THEN config[k]
        ELSE IF config[k] = <<>> THEN defaults[k] ELSE config[k][1]]

\* process.env of the helper's process
ProcessEnv(name) ==
    CASE name = "GH_PAT" -> "ghp_env"
      [] name = "GH_EMPTY" -> ""
      [] OTHER -> Null

\* String(x).trim()
Trim(x) ==
    CASE x = "   " -> ""
      [] x = Null -> "null"
      [] OTHER -> x

\* JavaScript truthiness of a string-or-null
Truthy(x) == x # Null /\ x # ""

\* getAuthToken (278-285)
getAuthToken(config) ==
    IF Truthy(config.token) /\ Trim(config.token) # ""
    THEN config.token
    ELSE IF Truthy(config.tokenEnvVar) THEN ProcessEnv(config.tokenEnvVar) ELSE Null

\* the targets of the configurations (README 50-63)
TargetWidgets ==
    [owner |-> "acme", repo |-> "widgets", baseBranchesMode |-> Null,
     baseBranches |-> <<>>, defaultBranchOverride |-> Null]
TargetGadgets ==
    [owner |-> "acme", repo |-> "gadgets", baseBranchesMode |-> "all",
     baseBranches |-> <<>>, defaultBranchOverride |-> Null]

\* the configurations the display instances send
PayloadBase ==
    [token |-> <<"ghp_cfg">>, tokenEnvVar |-> <<>>, targets |-> <<<<TargetWidgets>>>>,
     includeDrafts |-> <<>>, maxTotal |-> <<>>, maxPerRepo |-> <<>>,
     updateIntervalMs |-> <<1000>>, backoffOnRateLimit |-> <<>>,
     showOnAuthError |-> <<>>, listCacheTtlMs |-> <<>>]

\* module_1 watches one repository and is seen with three configurations
Payloads1 ==
    { PayloadBase,
      \* no token anywhere, alerts on (the default)
      [PayloadBase EXCEPT !.token = <<>>],
      \* a blank token, an empty environment variable, alerts off, another interval
      [PayloadBase EXCEPT !.token = <<"   ">>, !.tokenEnvVar = <<"GH_EMPTY">>,
                          !.showOnAuthError = <<FALSE>>, !.updateIntervalMs = <<2000>>,
                          !.listCacheTtlMs = <<500>>] }

\* module_2 takes its token from the environment, has no backoff and two targets
Payloads2 ==
    { [PayloadBase EXCEPT !.token = <<>>, !.tokenEnvVar = <<"GH_PAT">>,
                          !.backoffOnRateLimit = <<FALSE>>, !.maxPerRepo = <<1>>,
                          !.targets = <<<<TargetGadgets, TargetWidgets>>>>] }

\* config.js "branches": the modes of branch selection (README 56-61)
TargetListed ==
    [TargetWidgets EXCEPT !.baseBranchesMode = "list", !.baseBranches = <<"main", "dev">>]
TargetListEmpty ==
    [TargetGadgets EXCEPT !.baseBranchesMode = "list"]
TargetListOverride ==
    [TargetWidgets EXCEPT !.baseBranchesMode = "list", !.defaultBranchOverride = "release"]
PayloadsBranches1 ==
    { [PayloadBase EXCEPT !.targets = <<<<t>>>>]
      : t \in {TargetListed, TargetListOverride} }
\* module_2 hides drafts
PayloadsBranches2 ==
    { [PayloadBase EXCEPT !.targets = <<<<TargetGadgets>>>>, !.includeDrafts = <<FALSE>>],
      [PayloadBase EXCEPT !.targets = <<<<TargetListEmpty>>>>, !.includeDrafts = <<FALSE>>] }

\* config.js "cache": one display instance, which lists one repository twice
\* and polls every second
PayloadsCache1 ==
    { [PayloadBase EXCEPT !.targets = <<<<TargetGadgets, TargetGadgets>>>>] }
PayloadsCache2 == {}

\* payload.config of the notifications a display instance sends (56-76 of
\* MMM-GitPushy.js: this.config, as config.js has it)
Payloads(instanceId) ==
    CASE configJs = "branches" ->
           IF instanceId = "module_1" THEN PayloadsBranches1 ELSE PayloadsBranches2
      [] configJs = "cache" ->
           IF instanceId = "module_1" THEN PayloadsCache1 ELSE PayloadsCache2
      [] OTHER -> IF instanceId = "module_1" THEN Payloads1 ELSE Payloads2

---------------------------------------------------------------------------
(* The rate-limit guard.                                                   *)

\* this.backoffUntil = null (182)
NoBackoff == -1

\* the guard proper (272-275): a suppression timestamp is set and t is before it
isLimited(until, t) == IF until = NoBackoff \/ until = 0 THEN FALSE ELSE t < until

\* isRateLimited (268-276)
isRateLimited(config, until, t) ==
    IF ~config.backoffOnRateLimit THEN FALSE ELSE isLimited(until, t)

\* Number(reset) of the x-ratelimit-reset values the API model sends;
\* "soon" is not a number (NaN)
IsNaN(reset) == reset \notin {"1", "2", "3"}
NumberOf(reset) ==
    CASE reset = "1" -> 1
      [] reset = "2" -> 2
      [] reset = "3" -> 3
      [] OTHER -> 0

\* a plausible slip: the reset epoch taken for milliseconds
handleRateLimitNoScale(response, until) ==
    IF response.remaining = "0" /\ Truthy(response.reset)
    THEN IF ~IsNaN(response.reset) THEN NumberOf(response.reset) ELSE until
    ELSE until

\* handleRateLimit (520-529): the new value of this.backoffUntil
handleRateLimit(response, until) ==
    IF response.remaining = "0" /\ Truthy(response.reset)
    THEN LET resetMs == NumberOf(response.reset) * 1000
         IN  IF ~IsNaN(response.reset) THEN resetMs ELSE until
    ELSE until

---------------------------------------------------------------------------
(* A run of fetchAndSend: the synchronous code between two network calls.  *)

\* const repoKey = `${owner}/${repo}` (308, 396)
RepoKeyOf(target) == <<target.owner, target.repo>>

\* the cache keys of httpGet's callers (320 with 458, 438, 407)
ListCacheKey(repoKey, base, page) ==
    [kind |-> "pulls", repo |-> repoKey, base |-> IF Truthy(base) THEN base ELSE "all",
     state |-> "open", page |-> page, number |-> 0]
PullCacheKey(repoKey, number) ==
    [kind |-> "pull", repo |-> repoKey, base |-> "", state |-> "", page |-> 0,
     number |-> number]
RepoCacheKey(repoKey) ==
    [kind |-> "repo", repo |-> repoKey, base |-> "", state |-> "", page |-> 0,
     number |-> 0]

\* the repository-metadata validity window (398, 408)
RepoMetaTtlMs == 3600000

NoRequest == [kind |-> "none"]

\* a url that is null (fetchAllPages 457, getNextPageUrl 533, 542)
NoUrl == [path |-> Null]

\* the locals of fetchAndSend and of the calls below it, at its entry (221-247)
NewRun(instanceId, config, token) ==
    [instanceId |-> instanceId, config |-> config, token |-> token, pc |-> "target",
     ti |-> 1, bases |-> <<>>, bi |-> 1, page |-> 1, url |-> NoUrl, all |-> <<>>,
     pulls |-> <<>>, filtered |-> <<>>, di |-> 1, enriched |-> <<>>, results |-> <<>>,
     req |-> NoRequest, out |-> <<>>]

RunTarget(run) == run.config.targets[run.ti]

\* a plausible slip: no unfiltered list when no branch was resolved
StartListsNoFallback(M, baseBranches) ==
    [M EXCEPT !.run.bases = baseBranches,
              !.run.bi = 1, !.run.pulls = <<>>, !.run.pc = "branch"]

\* fetchRepoPulls 311-313: listConfigs of the resolved branches
StartLists(M, baseBranches) ==
    [M EXCEPT !.run.bases = IF Len(baseBranches) > 0 THEN baseBranches ELSE <<Null>>,
              !.run.bi = 1, !.run.pulls = <<>>, !.run.pc = "branch"]

\* the record fetchRepoPulls pushes for a pull request (350-369)
Enriched(target, pr, details) ==
    [repo |-> target.repo, number |-> pr.number, updated_at |-> pr.updated_at,
     draft |-> pr.draft, additions |-> details.additions]

\* what the caller of httpGet does with the value it returns
Deliver(M, kind, data, t) ==
    LET run == M.run
        target == RunTarget(run)
    IN  CASE kind = "repo" ->
               \* resolveDefaultBranch 410-415
               LET defaultBranch == data.default_branch
               IN  StartLists(
                     [M EXCEPT !.meta = (RepoKeyOf(target) :>
                                           [defaultBranch |-> defaultBranch, fetchedAt |-> t])
                                        @@ M.meta],
                     IF Truthy(defaultBranch) THEN <<defaultBranch>> ELSE <<>>)
          [] kind = "list" ->
               \* fetchAllPages 460-462, then fetchRepoPulls 328
               IF data.nextUrl # NoUrl
               THEN [M EXCEPT !.run.all = run.all \o data.data,
                              !.run.url = data.nextUrl,
                              !.run.page = run.page + 1,
                              !.run.pc = "page"]
               ELSE [M EXCEPT !.run.all = <<>>,
                              !.run.pulls = run.pulls \o run.all \o data.data,
                              !.run.bi = run.bi + 1,
                              !.run.pc = "branch"]
          [] kind = "detail" ->
               \* fetchRepoPulls 350-369
               [M EXCEPT !.run.enriched =
                             Append(run.enriched, Enriched(target, run.filtered[run.di], data)),
                         !.run.di = run.di + 1,
                         !.run.pc = "detail"]

\* a call of httpGet as the handler's record keeps it: what was looked up and
\* what httpGet returned from the cache without a request, if anything
Lookup(lookup, returned) ==
    [kind |-> lookup.kind, cacheKey |-> lookup.cacheKey, ttl |-> lookup.ttl,
     at |-> lookup.at, hit |-> returned # <<>>, returned |-> returned]

\* a plausible slip: the cached entry is never taken for fresh
httpGetNoCache(M, cache, t, kind, url, cacheKey, ttl) ==
    LET cached == IF cacheKey \in DOMAIN cache THEN <<cache[cacheKey]>> ELSE <<>>
        lookup == [kind |-> kind, cacheKey |-> cacheKey, ttl |-> ttl, at |-> t]
    IN  [M EXCEPT !.log = Append(@, Lookup(lookup, <<>>)),
                  !.run.pc = "await",
                  !.run.req = [kind |-> kind, url |-> url, cacheKey |-> cacheKey,
                               now |-> t, cached |-> cached, seq |-> 0,
                               authorization |-> M.run.token,
                               ifNoneMatch |-> IF cached # <<>> /\ Truthy(cached[1].etag)
                                               THEN cached[1].etag ELSE Null]]

\* httpGet up to its fetch (468-487): a fresh cache entry is returned,
\* anything else suspends the run on a request
httpGet(M, cache, t, kind, url, cacheKey, ttl) ==
    LET cached == IF cacheKey \in DOMAIN cache THEN <<cache[cacheKey]>> ELSE <<>>
        lookup == [kind |-> kind, cacheKey |-> cacheKey, ttl |-> ttl, at |-> t]
    IN  IF cached # <<>> /\ t - cached[1].fetchedAt < ttl
        THEN Deliver([M EXCEPT !.log = Append(@, Lookup(lookup, <<cached[1].data>>))],
                     kind, cached[1].data, t)
        ELSE [M EXCEPT !.log = Append(@, Lookup(lookup, <<>>)),
                       !.run.pc = "await",
                       !.run.req = [kind |-> kind, url |-> url, cacheKey |-> cacheKey,
                                    now |-> t, cached |-> cached, seq |-> 0,
                                    authorization |-> M.run.token,
                                    ifNoneMatch |-> IF cached # <<>> /\ Truthy(cached[1].etag)
                                                    THEN cached[1].etag ELSE Null]]

\* resolveDefaultBranch up to its httpGet (395-409)
resolveDefaultBranch(M, cache, t) ==
    LET target == RunTarget(M.run)
        cacheKey == RepoKeyOf(target)
    IN  IF cacheKey \in DOMAIN M.meta /\ t - M.meta[cacheKey].fetchedAt < RepoMetaTtlMs
        THEN StartLists(M, IF Truthy(M.meta[cacheKey].defaultBranch)
                           THEN <<M.meta[cacheKey].defaultBranch>> ELSE <<>>)
        ELSE httpGet(M, cache, t, "repo", [path |-> "repo", repo |-> cacheKey],
                     RepoCacheKey(cacheKey), RepoMetaTtlMs)

\* a plausible slip: the test for mode "all" is missing
resolveBaseBranchesNoAll(M, cache, t) ==
    LET target == RunTarget(M.run)
    IN  IF target.baseBranchesMode = "list" /\ Len(target.baseBranches) > 0
        THEN StartLists(M, target.baseBranches)
        ELSE IF target.baseBranchesMode # "list" /\ Truthy(target.defaultBranchOverride)
        THEN StartLists(M, <<target.defaultBranchOverride>>)
        ELSE resolveDefaultBranch(M, cache, t)

\* resolveBaseBranches (375-393)
resolveBaseBranches(M, cache, t) ==
    LET target == RunTarget(M.run)
        mode == IF Truthy(target.baseBranchesMode) THEN target.baseBranchesMode
                ELSE "defaultOnly"
    IN  IF mode = "all" THEN StartLists(M, <<>>)
        ELSE IF mode = "list"
        THEN IF Len(target.baseBranches) > 0
             THEN StartLists(M, target.baseBranches)
             ELSE resolveDefaultBranch(M, cache, t)
        ELSE IF Truthy(target.defaultBranchOverride)
        THEN StartLists(M, <<target.defaultBranchOverride>>)
        ELSE resolveDefaultBranch(M, cache, t)

\* one stretch of synchronous code of fetchAllTargets / fetchRepoPulls /
\* fetchAllPages, from where the run stands to the next call of httpGet
StepSync(M, cache, t) ==
    LET run == M.run
        config == run.config
    IN  CASE run.pc = "target" ->
               IF run.ti > Len(config.targets)
               THEN \* fetchAllTargets 296-302
                    [M EXCEPT !.run.pc = "done",
                              !.run.out = limitTotal(sortResults(run.results), config.maxTotal)]
               ELSE \* fetchRepoPulls 305-310
                    resolveBaseBranches(M, cache, t)
          [] run.pc = "branch" ->
               IF run.bi > Len(run.bases)
               THEN \* fetchRepoPulls 331-339
                    [M EXCEPT !.run.filtered =
                                  draftFilter(uniquePulls(run.pulls), config.includeDrafts),
                              !.run.di = 1, !.run.enriched = <<>>, !.run.pc = "detail"]
               ELSE \* fetchRepoPulls 315-320, fetchAllPages 453-455
                    [M EXCEPT !.run.all = <<>>, !.run.page = 1,
                              !.run.url = [path |-> "pulls",
                                           repo |-> RepoKeyOf(RunTarget(run)),
                                           base |-> run.bases[run.bi], page |-> 1],
                              !.run.pc = "page"]
          [] run.pc = "page" ->
               \* fetchAllPages 457-459
               httpGet(M, cache, t, "list", run.url,
                       ListCacheKey(RepoKeyOf(RunTarget(run)), run.bases[run.bi], run.page),
                       config.updateIntervalMs)
          [] run.pc = "detail" ->
               IF run.di > Len(run.filtered)
               THEN \* fetchRepoPulls 372, fetchAllTargets 292-293
                    [M EXCEPT !.run.results =
                                  run.results \o limitPerRepo(run.enriched, config.maxPerRepo),
                              !.run.ti = run.ti + 1, !.run.pc = "target"]
               ELSE \* fetchPullDetails 436-440
                    httpGet(M, cache, t, "detail",
                            [path |-> "pull", repo |-> RepoKeyOf(RunTarget(run)),
                             number |-> run.filtered[run.di].number],
                            PullCacheKey(RepoKeyOf(RunTarget(run)), run.filtered[run.di].number),
                            config.updateIntervalMs)

\* the run goes on until it awaits a fetch or fetchAllTargets returns
RECURSIVE Advance(_, _, _)
Advance(M, cache, t) ==
    IF M.run.pc \in {"await", "done"} THEN M ELSE Advance(StepSync(M, cache, t), cache, t)

---------------------------------------------------------------------------
(* The GitHub API, as far as the helper can tell.                          *)

\* most pages of one list
MaxPages == 2

PR7 == [number |-> 7, updated_at |-> "2024-01-01T00:00:00Z", draft |-> FALSE]
PR10 == [number |-> 10, updated_at |-> "2024-01-02T00:00:00Z", draft |-> TRUE]

\* the headers of a response that is ok: ETag and quota
OkHeaders ==
    { [remaining |-> "59", reset |-> "2", etag |-> "W/a"],
      [remaining |-> "0", reset |-> "3", etag |-> Null] }

\* a plausible slip: the first link is taken whatever its rel
getNextPageUrlFirst(linkHeader) ==
    IF linkHeader = <<>> THEN NoUrl ELSE Head(linkHeader).url

\* the Link header as its comma-separated segments; getNextPageUrl (531-543)
\* returns the url of the first segment whose rel is "next"
RECURSIVE getNextPageUrl(_)
getNextPageUrl(linkHeader) ==
    IF linkHeader = <<>> THEN NoUrl
    ELSE IF Head(linkHeader).rel = "next" THEN Head(linkHeader).url
    ELSE getNextPageUrl(Tail(linkHeader))

LinkHeaders(url) ==
    {<<>>} \cup
    IF url.page < MaxPages
    THEN { << [url |-> [url EXCEPT !.page = 1], rel |-> "first"],
              [url |-> [url EXCEPT !.page = url.page + 1], rel |-> "next"] >> }
    ELSE {}

Bodies(req) ==
    CASE req.kind = "repo" -> { [default_branch |-> "main"], [default_branch |-> Null] }
      [] req.kind = "list" -> { <<>>, <<PR7>>, <<PR10, PR7>> }
      [] req.kind = "detail" -> { [additions |-> 3] }

\* what fetch(url, {headers}) can resolve to (487); status 0 stands for a
\* rejected fetch (the transport failed)
Responses(req) ==
    { [status |-> 200, remaining |-> h.remaining, reset |-> h.reset, etag |-> h.etag,
       body |-> b, link |-> l, text |-> ""]
      : h \in OkHeaders, b \in Bodies(req),
        l \in IF req.kind = "list" THEN LinkHeaders(req.url) ELSE {<<>>} }
    \cup
    (IF req.ifNoneMatch # Null
     THEN { [status |-> 304, remaining |-> "58", reset |-> "2", etag |-> req.ifNoneMatch,
             body |-> <<>>, link |-> <<>>, text |-> ""] }
     ELSE {})
    \cup
    { [status |-> e[1], remaining |-> e[2], reset |-> e[3], etag |-> Null,
       body |-> <<>>, link |-> <<>>, text |-> e[4]]
      : e \in { <<403, "0", "2", "rate limit exceeded">>,
                <<403, "0", "1", "rate limit exceeded">>,
                <<429, "0", "soon", "slow down">>,
                <<403, "0", Null, "forbidden">>,
                <<500, "59", "2", "server error">>,
                <<0, Null, Null, "socket hang up">> } }

\* response.ok
Ok(response) == response.status >= 200 /\ response.status <= 299

---------------------------------------------------------------------------
(* The helper's state and handlers.                                        *)

\* how many socket notifications, clock steps, suspended runs and calls of
\* fetch() are explored
MaxMsgs == 2
MaxTicks == 1
MaxRuns == 2
MaxFetches == 3
\* and calls of fetch() under config.js "cache", where a run that revalidates
\* overlaps one that refetches
MaxFetchesCache == 4

FetchBudget == IF configJs = "cache" THEN MaxFetchesCache ELSE MaxFetches

Idle == [pc |-> "idle"]

RateLimitMessage == <<"GitHub rate limit hit. Waiting to retry.">>
MissingTokenMessage(config) ==
    <<"Missing GitHub token (set auth.token or env var ", config.tokenEnvVar, ").">>
\* a plausible slip: formatError reads a property the Error does not have
ErrorMessageUnknown(response) == <<"Unknown error fetching GitHub pull requests.">>

\* formatError (545-550) of what httpGet throws (497) or fetch rejects with
ErrorMessage(response) ==
    IF response.status = 0 THEN <<response.text>>
    ELSE <<"GitHub API error ", ToString(response.status), ": ", response.text>>

NoEvent(type, instanceId) ==
    [type |-> type, instanceId |-> instanceId, signal |-> <<>>, fetched |-> <<>>,
     response |-> <<>>, slot |-> 0, lookups |-> <<>>, config |-> <<>>,
     returned |-> <<>>, request |-> <<>>]

\* a plausible slip: the display instance does not compare the identifier
socketNotificationReceivedAny(self, identifier, notification, payload) ==
    IF notification = "GITPUSHY_DATA"
    THEN [prs |-> payload.prs, error |-> <<>>, loaded |-> TRUE]
    ELSE [prs |-> payload.prs, error |-> payload.message, loaded |-> TRUE]

\* socketNotificationReceived of a display instance (MMM-GitPushy.js 284-305);
\* the helper's signals always carry a message that is not empty and a list
socketNotificationReceived(self, identifier, notification, payload) ==
    IF payload.instanceId # identifier THEN self
    ELSE IF notification = "GITPUSHY_DATA"
    THEN [prs |-> payload.prs, error |-> <<>>, loaded |-> TRUE]
    ELSE IF notification = "GITPUSHY_ERROR"
    THEN [prs |-> payload.prs, error |-> payload.message, loaded |-> TRUE]
    ELSE self

\* the config.js files the mirror is started with
ConfigJs == {"base", "branches", "cache"}

\* start (177-183) of the helper and start (48-55) of the display instances,
\* before any notification
EngineInitWith(js) ==
    /\ configJs = js
    /\ display = [i \in InstanceIds |-> [prs |-> <<>>, error |-> <<>>, loaded |-> FALSE]]
    /\ instances = <<>>
    /\ timers = <<>>
    /\ httpCache = <<>>
    /\ repoMetaCache = <<>>
    /\ backoffUntil = NoBackoff
    /\ intervals = <<>>
    /\ nextHandle = 1
    /\ runs = [s \in 1..MaxRuns |-> Idle]
    /\ now = 0
    /\ event = NoEvent("start", Null)
    /\ msgs = 0
    /\ fetches = 0
    /\ lastGood = [i \in InstanceIds |-> <<>>]

EngineInit == EngineInitWith("base")

\* getCachedData (263-266)
getCachedData(insts, instanceId) ==
    IF instanceId \in DOMAIN insts /\ insts[instanceId].lastData # <<>>
    THEN insts[instanceId].lastData[1]
    ELSE <<>>

Signal(notification, instanceId, message, prs) ==
    [notification |-> notification, instanceId |-> instanceId, message |-> message,
     prs |-> prs]

\* what a handler leaves behind once its run is suspended again or over:
\* the instances, the metadata cache, the run to park (if any), what it sent
\* and the request it made
Settle(M, insts, until, t) ==
    LET run == M.run
    IN  IF run.pc = "done"
        THEN \* fetchAndSend 248-252
             [instances |-> [insts EXCEPT ![run.instanceId].lastData = <<run.out>>],
              meta |-> M.meta, run |-> <<>>,
              signal |-> <<Signal("GITPUSHY_DATA", run.instanceId, <<>>, run.out)>>,
              fetched |-> <<>>, lookups |-> M.log, config |-> <<run.config>>]
        ELSE [instances |-> insts, meta |-> M.meta, run |-> <<run>>, signal |-> <<>>,
              fetched |-> <<[kind |-> run.req.kind, url |-> run.req.url,
                             instanceId |-> run.instanceId, at |-> t,
                             gated |-> isRateLimited(run.config, until, t)]>>,
              lookups |-> M.log, config |-> <<run.config>>]

\* a plausible slip: the catch swallows the error
FailedSilent(run, insts, meta, message) ==
    [instances |-> insts, meta |-> meta, run |-> <<>>, signal |-> <<>>,
     fetched |-> <<>>, lookups |-> <<>>, config |-> <<run.config>>]

\* fetchAndSend 253-260: the catch
Failed(run, insts, meta, message) ==
    [instances |-> insts, meta |-> meta, run |-> <<>>,
     signal |-> <<Signal("GITPUSHY_ERROR", run.instanceId, message,
                         getCachedData(insts, run.instanceId))>>,
     fetched |-> <<>>, lookups |-> <<>>, config |-> <<run.config>>]

\* a plausible slip: the credential check made before the rate-limit check
fetchAndSendTokenFirst(instanceId, insts, meta, cache, until, t) ==
    IF instanceId \notin DOMAIN insts
    THEN [instances |-> insts, meta |-> meta, run |-> <<>>, signal |-> <<>>,
          fetched |-> <<>>, lookups |-> <<>>, config |-> <<>>]
    ELSE LET config == insts[instanceId].config
             token == getAuthToken(config)
             run == NewRun(instanceId, config, token)
         IN  IF ~Truthy(token) /\ config.showOnAuthError
             THEN Failed(run, insts, meta, MissingTokenMessage(config))
             ELSE IF isRateLimited(config, until, t)
             THEN Failed(run, insts, meta, RateLimitMessage)
             ELSE Settle(Advance([run |-> run, meta |-> meta, log |-> <<>>], cache, t), insts, until, t)

\* a plausible slip: the alert flag read the wrong way round
fetchAndSendAlertInverted(instanceId, insts, meta, cache, until, t) ==
    IF instanceId \notin DOMAIN insts
    THEN [instances |-> insts, meta |-> meta, run |-> <<>>, signal |-> <<>>,
          fetched |-> <<>>, lookups |-> <<>>, config |-> <<>>]
    ELSE LET config == insts[instanceId].config
             token == getAuthToken(config)
             run == NewRun(instanceId, config, token)
         IN  IF isRateLimited(config, until, t)
             THEN Failed(run, insts, meta, RateLimitMessage)
             ELSE IF ~Truthy(token) /\ ~config.showOnAuthError
             THEN Failed(run, insts, meta, MissingTokenMessage(config))
             ELSE Settle(Advance([run |-> run, meta |-> meta, log |-> <<>>], cache, t), insts, until, t)

\* a plausible slip (or a guard one might expect): a trigger is dropped
\* while a run of the same instance is in flight
fetchAndSendExclusive(instanceId, insts, meta, cache, until, t) ==
    IF instanceId \notin DOMAIN insts
       \/ \E s \in 1..MaxRuns : runs[s].pc = "await" /\ runs[s].instanceId = instanceId
    THEN [instances |-> insts, meta |-> meta, run |-> <<>>, signal |-> <<>>,
          fetched |-> <<>>, lookups |-> <<>>, config |-> <<>>]
    ELSE LET config == insts[instanceId].config
             token == getAuthToken(config)
             run == NewRun(instanceId, config, token)
         IN  IF isRateLimited(config, until, t)
             THEN Failed(run, insts, meta, RateLimitMessage)
             ELSE IF ~Truthy(token) /\ config.showOnAuthError
             THEN Failed(run, insts, meta, MissingTokenMessage(config))
             ELSE Settle(Advance([run |-> run, meta |-> meta, log |-> <<>>], cache, t),
                         insts, until, t)

\* fetchAndSend (221-261) up to its first await
fetchAndSend(instanceId, insts, meta, cache, until, t) ==
    IF instanceId \notin DOMAIN insts
    THEN [instances |-> insts, meta |-> meta, run |-> <<>>, signal |-> <<>>,
          fetched |-> <<>>, lookups |-> <<>>, config |-> <<>>]
    ELSE LET config == insts[instanceId].config
             token == getAuthToken(config)
             run == NewRun(instanceId, config, token)
         IN  IF isRateLimited(config, until, t)
             THEN Failed(run, insts, meta, RateLimitMessage)
             ELSE IF ~Truthy(token) /\ config.showOnAuthError
             THEN Failed(run, insts, meta, MissingTokenMessage(config))
             ELSE Settle(Advance([run |-> run, meta |-> meta, log |-> <<>>], cache, t), insts, until, t)

\* a plausible slip: the old timer is not cleared when the interval changes
registerInstanceNoClear(instanceId, payload, insts, tmrs, ivals, handle, t) ==
    LET normalized == applyDefaults(payload, DEFAULT_CONFIG)
        insts1 == (instanceId :> [config |-> normalized, lastData |-> <<>>]) @@ insts
        interval == normalized.updateIntervalMs
        timer == [instanceId |-> instanceId, period |-> interval, due |-> t + interval]
        entry == [timer |-> handle, interval |-> interval]
    IN  IF instanceId \notin DOMAIN tmrs \/ tmrs[instanceId].interval # interval
        THEN [instances |-> insts1, timers |-> (instanceId :> entry) @@ tmrs,
              intervals |-> (handle :> timer) @@ ivals, nextHandle |-> handle + 1]
        ELSE [instances |-> insts1, timers |-> tmrs, intervals |-> ivals,
              nextHandle |-> handle]

\* registerInstance (201-219): the maps and the runtime's timers afterwards
registerInstance(instanceId, payload, insts, tmrs, ivals, handle, t) ==
    LET normalized == applyDefaults(payload, DEFAULT_CONFIG)
        insts1 == (instanceId :> [config |-> normalized, lastData |-> <<>>]) @@ insts
        interval == normalized.updateIntervalMs
        \* setInterval(() => this.fetchAndSend(instanceId), interval)
        timer == [instanceId |-> instanceId, period |-> interval, due |-> t + interval]
        entry == [timer |-> handle, interval |-> interval]
    IN  IF instanceId \notin DOMAIN tmrs
        THEN [instances |-> insts1, timers |-> (instanceId :> entry) @@ tmrs,
              intervals |-> (handle :> timer) @@ ivals, nextHandle |-> handle + 1]
        ELSE IF tmrs[instanceId].interval # interval
        THEN \* clearInterval(existing.timer), then a new one
             LET cleared == [h \in DOMAIN ivals \ {tmrs[instanceId].timer} |-> ivals[h]]
             IN  [instances |-> insts1, timers |-> (instanceId :> entry) @@ tmrs,
                  intervals |-> (handle :> timer) @@ cleared, nextHandle |-> handle + 1]
        ELSE [instances |-> insts1, timers |-> tmrs, intervals |-> ivals,
              nextHandle |-> handle]

\* a plausible slip: the 304 is not told from the other statuses that are
\* not ok
httpGetResumeNo304(req, response, cache, until) ==
    IF response.status = 0
    THEN [cache |-> cache, until |-> until, thrown |-> TRUE, data |-> <<>>]
    ELSE IF ~Ok(response)
    THEN [cache |-> cache, until |-> handleRateLimit(response, until), thrown |-> TRUE,
          data |-> <<>>]
    ELSE LET payload == IF req.kind = "list"
                        THEN [data |-> response.body,
                              nextUrl |-> getNextPageUrl(response.link)]
                        ELSE response.body
         IN  [cache |-> (req.cacheKey :>
                           [data |-> payload, etag |-> response.etag, fetchedAt |-> req.now,
                            ref |-> req.seq])
                        @@ cache,
              until |-> until, thrown |-> FALSE, data |-> payload]

\* httpGet from the resolved fetch on (487-517): the cache and the
\* suppression timestamp afterwards, and what httpGet returns or throws
httpGetResume(req, response, cache, until) ==
    IF response.status = 0
    THEN [cache |-> cache, until |-> until, thrown |-> TRUE, data |-> <<>>]
    ELSE IF response.status = 304 /\ req.cached # <<>>
    THEN \* cached.fetchedAt = now, on the object httpGet read before the fetch:
         \* the map shows it only if that object is still the key's entry
         [cache |-> IF req.cacheKey \in DOMAIN cache
                       /\ cache[req.cacheKey].ref = req.cached[1].ref
                    THEN [cache EXCEPT ![req.cacheKey].fetchedAt = req.now]
                    ELSE cache,
          until |-> until, thrown |-> FALSE, data |-> req.cached[1].data]
    ELSE IF ~Ok(response)
    THEN [cache |-> cache, until |-> handleRateLimit(response, until), thrown |-> TRUE,
          data |-> <<>>]
    ELSE LET payload == IF req.kind = "list"
                        THEN [data |-> response.body,
                              nextUrl |-> getNextPageUrl(response.link)]
                        ELSE response.body
         IN  [cache |-> (req.cacheKey :>
                           [data |-> payload, etag |-> response.etag, fetchedAt |-> req.now,
                            ref |-> req.seq])
                        @@ cache,
              until |-> until, thrown |-> FALSE, data |-> payload]

\* the runs awaiting a fetch
Suspended == { s \in 1..MaxRuns : runs[s].pc = "await" }

FreeSlot ==
    CHOOSE s \in 1..MaxRuns : s \notin Suspended /\ \A u \in 1..(s - 1) : u \in Suspended

\* the part of a handler's effect that every handler running fetchAndSend shares
Apply(type, instanceId, out, slot, response, returned, request) ==
    /\ out.run # <<>> /\ slot = 0 => Suspended # 1..MaxRuns
    /\ out.fetched # <<>> => fetches < FetchBudget
    /\ fetches' = IF out.fetched # <<>> THEN fetches + 1 ELSE fetches
    /\ instances' = out.instances
    /\ repoMetaCache' = out.meta
    /\ LET s == IF slot = 0 /\ out.run # <<>> THEN FreeSlot ELSE slot
           \* the request a parked run awaits is the (fetches + 1)-th: the number
           \* tells the object httpGet stores for it from every other entry
       IN  /\ runs' = IF s = 0 THEN runs
                      ELSE [runs EXCEPT ![s] = IF out.run = <<>> THEN Idle
                                               ELSE [out.run[1] EXCEPT !.req.seq = fetches + 1]]
           /\ event' = [type |-> type, instanceId |-> instanceId, signal |-> out.signal,
                        fetched |-> out.fetched, response |-> response, slot |-> s,
                        lookups |-> out.lookups, config |-> out.config,
                        returned |-> returned, request |-> request]
    /\ display' = IF out.signal = <<>> THEN display
                  ELSE [i \in InstanceIds |->
                          socketNotificationReceived(display[i], i,
                                                     out.signal[1].notification,
                                                     out.signal[1])]
    /\ lastGood' = IF out.signal # <<>> /\ out.signal[1].notification = "GITPUSHY_DATA"
                   THEN [lastGood EXCEPT ![out.signal[1].instanceId] = <<out.signal[1].prs>>]
                   ELSE lastGood

\* socketNotificationReceived (185-199) without a payload or an instanceId
ReceiveIgnored ==
    /\ msgs < MaxMsgs
    /\ msgs' = msgs + 1
    /\ event' = NoEvent("ignored", Null)
    /\ UNCHANGED <<instances, timers, httpCache, repoMetaCache, backoffUntil, intervals,
                   nextHandle, runs, now, fetches, lastGood, configJs, display>>
    /\ UNCHANGED <<rvars, mvars>>

\* socketNotificationReceived: GITPUSHY_CONFIG (190-193)
ReceiveConfig(instanceId, payload) ==
    /\ msgs < MaxMsgs
    /\ msgs' = msgs + 1
    /\ LET reg == registerInstance(instanceId, payload, instances, timers, intervals,
                                   nextHandle, now)
       IN  /\ instances' = reg.instances
           /\ timers' = reg.timers
           /\ intervals' = reg.intervals
           /\ nextHandle' = reg.nextHandle
    /\ event' = NoEvent("GITPUSHY_CONFIG", instanceId)
    /\ UNCHANGED <<httpCache, repoMetaCache, backoffUntil, runs, now, fetches, lastGood,
                   configJs, display>>
    /\ UNCHANGED <<rvars, mvars>>

\* socketNotificationReceived: GITPUSHY_FETCH (195-198)
ReceiveFetch(instanceId, payload) ==
    /\ msgs < MaxMsgs
    /\ msgs' = msgs + 1
    /\ LET reg == registerInstance(instanceId, payload, instances, timers, intervals,
                                   nextHandle, now)
           out == fetchAndSend(instanceId, reg.instances, repoMetaCache, httpCache,
                               backoffUntil, now)
       IN  /\ timers' = reg.timers
           /\ intervals' = reg.intervals
           /\ nextHandle' = reg.nextHandle
           /\ Apply("GITPUSHY_FETCH", instanceId, out, 0, <<>>, <<>>, <<>>)
    /\ UNCHANGED <<httpCache, backoffUntil, now, configJs>>
    /\ UNCHANGED <<rvars, mvars>>

\* a timer of registerInstance comes due (209, 216)
TimerFire(handle) ==
    /\ handle \in DOMAIN intervals
    /\ now >= intervals[handle].due
    /\ intervals' = [intervals EXCEPT ![handle].due = now + intervals[handle].period]
    /\ LET out == fetchAndSend(intervals[handle].instanceId, instances, repoMetaCache,
                               httpCache, backoffUntil, now)
       IN  Apply("timer", intervals[handle].instanceId, out, 0, <<>>, <<>>, <<>>)
    /\ UNCHANGED <<timers, httpCache, backoffUntil, nextHandle, now, msgs, configJs>>
    /\ UNCHANGED <<rvars, mvars>>

\* the fetch a run awaits resolves (or rejects) and the run goes on
Respond(slot, response) ==
    /\ slot \in Suspended
    /\ LET run == runs[slot]
           req == run.req
           got == httpGetResume(req, response, httpCache, backoffUntil)
           M == [run |-> run, meta |-> repoMetaCache, log |-> <<>>]
           out == IF ~got.thrown
                  THEN Settle(Advance(Deliver(M, req.kind, got.data, now), got.cache, now),
                              instances, got.until, now)
                  ELSE IF req.kind = "repo"
                  THEN \* resolveDefaultBranch 416-419
                       Settle(Advance(StartLists(M, <<>>), got.cache, now),
                              instances, got.until, now)
                  ELSE Failed(run, instances, repoMetaCache, ErrorMessage(response))
       IN  /\ httpCache' = got.cache
           /\ backoffUntil' = got.until
           /\ Apply("response", run.instanceId, out, slot, <<response>>,
                    IF got.thrown THEN <<>> ELSE <<got.data>>, <<req>>)
    /\ UNCHANGED <<timers, intervals, nextHandle, now, msgs, configJs>>
    /\ UNCHANGED <<rvars, mvars>>

\* time passes
ClockTick ==
    /\ now < MaxTicks * 1000
    /\ now' = now + 1000
    /\ event' = NoEvent("clock", Null)
    /\ UNCHANGED <<instances, timers, httpCache, repoMetaCache, backoffUntil, intervals,
                   nextHandle, runs, msgs, fetches, lastGood, configJs, display>>
    /\ UNCHANGED <<rvars, mvars>>

PureIdle ==
    /\ r_pc = "idle" /\ r_includeDrafts = TRUE
    /\ r_pulls = <<>> /\ r_unique = <<>> /\ r_filtered = <<>>
    /\ m_pc = 0 /\ m_limits = [maxPerRepo |-> 0, maxTotal |-> 0]
    /\ m_prs = <<>> /\ m_results = <<>> /\ m_out = <<>>

Init == EngineInit /\ PureIdle

Next ==
    \/ ReceiveIgnored
    \/ \E i \in InstanceIds : \E p \in Payloads(i) : ReceiveConfig(i, p)
    \/ \E i \in InstanceIds : \E p \in Payloads(i) : ReceiveFetch(i, p)
    \/ \E h \in DOMAIN intervals : TimerFire(h)
    \/ \E s \in Suspended : \E response \in Responses(runs[s].req) : Respond(s, response)
    \/ ClockTick

Spec == Init /\ [][Next]_vars

\* fetch() of httpGet (487) settles: some answer of the request a run awaits
\* arrives
RespondSome(slot) ==
    /\ slot \in Suspended
    /\ \E response \in Responses(runs[slot].req) : Respond(slot, response)

\* a run whose awaited fetch() can settle within the requests explored: with
\* a request left, Apply lets every answer through
Answerable(slot) == slot \in Suspended /\ fetches < FetchBudget

\* every pending fetch() settles: weak fairness of RespondSome(slot), written
\* out with Answerable(slot) for ENABLED <<RespondSome(slot)>>_vars (which
\* Answerable(slot) implies, so WF_vars(RespondSome(slot)) implies this)
SpecLive ==
    /\ Spec
    /\ \A slot \in 1..MaxRuns :
          []<>(~Answerable(slot)) \/ []<><<RespondSome(slot)>>_vars

\* the same helper under the other config.js files
InitBranches == EngineInitWith("branches") /\ PureIdle
SpecBranches == InitBranches /\ [][Next]_vars

InitCache == EngineInitWith("cache") /\ PureIdle
SpecCache == InitCache /\ [][Next]_vars

---------------------------------------------------------------------------
(* SpecRepo: uniquePulls and the draft filter on every bounded list.       *)

\* list-view pull requests of one repository; two entries with the same
\* number can differ in title, which tells an earlier entry from a later one
RepoListPRs ==
    [number : 1..2, title : {"a", "b"}, draft : BOOLEAN,
     updated_at : {"2024-01-01T00:00:00Z"}]

InitRepo ==
    /\ r_pc = "pulls"
    /\ r_includeDrafts \in BOOLEAN
    /\ r_pulls \in SeqsUpTo(RepoListPRs, MaxPulls)
    /\ r_unique = <<>>
    /\ r_filtered = <<>>
    /\ m_pc = 0 /\ m_limits = [maxPerRepo |-> 0, maxTotal |-> 0]
    /\ m_prs = <<>> /\ m_results = <<>> /\ m_out = <<>>
    /\ EngineInit

\* const unique = this.uniquePulls(pulls)  (331)
RepoUnique ==
    /\ r_pc = "pulls"
    /\ r_unique' = uniquePulls(r_pulls)
    /\ r_pc' = "unique"
    /\ UNCHANGED <<r_includeDrafts, r_pulls, r_filtered>>
    /\ UNCHANGED <<mvars, evars>>

\* const filtered = unique.filter(...)  (332-337)
RepoFilter ==
    /\ r_pc = "unique"
    /\ r_filtered' = draftFilter(r_unique, r_includeDrafts)
    /\ r_pc' = "filtered"
    /\ UNCHANGED <<r_includeDrafts, r_pulls, r_unique>>
    /\ UNCHANGED <<mvars, evars>>

NextRepo == RepoUnique \/ RepoFilter

SpecRepo == InitRepo /\ [][NextRepo]_vars

---------------------------------------------------------------------------
(* SpecMerge: fetchAllTargets on bounded per-target results.               *)

MergeTargets == <<"widgets", "gadgets">>

\* what fetchRepoPulls returns for target t: the enriched records of its
\* pull requests, numbered in list order, each with any updated_at
RepoResults(t) ==
    { [i \in 1..Len(st) |->
          [repo |-> MergeTargets[t], number |-> 10 * t + i, updated_at |-> st[i]]]
      : st \in SeqsUpTo(Stamps, MaxRepoPrs) }

InitMerge ==
    /\ m_pc = 1
    /\ m_limits \in [maxPerRepo : 0..MaxRepoPrs, maxTotal : 0..(MaxRepoPrs + 1)]
    /\ m_prs \in { <<a, b>> : a \in RepoResults(1), b \in RepoResults(2) }
    /\ m_results = <<>>
    /\ m_out = <<>>
    /\ r_pc = "idle" /\ r_includeDrafts = TRUE
    /\ r_pulls = <<>> /\ r_unique = <<>> /\ r_filtered = <<>>
    /\ EngineInit

\* one iteration of the loop over targets (290-294)
MergeTarget ==
    /\ m_pc \in 1..Len(MergeTargets)
    /\ m_results' = m_results \o limitPerRepo(m_prs[m_pc], m_limits.maxPerRepo)
    /\ m_pc' = m_pc + 1
    /\ UNCHANGED <<m_limits, m_prs, m_out>>
    /\ UNCHANGED <<rvars, evars>>

\* the sort and the global cut (296-302)
MergeFinish ==
    /\ m_pc = Len(MergeTargets) + 1
    /\ m_out' = limitTotal(sortResults(m_results), m_limits.maxTotal)
    /\ m_pc' = 0
    /\ UNCHANGED <<m_limits, m_prs, m_results>>
    /\ UNCHANGED <<rvars, evars>>

NextMerge == MergeTarget \/ MergeFinish

SpecMerge == InitMerge /\ [][NextMerge]_vars

---------------------------------------------------------------------------
(* What the claims about the engine speak of.                              *)

\* the last handler was a fetch trigger: an explicit request or a timer tick
TriggerEvent == event.type \in {"GITPUSHY_FETCH", "timer"} /\ event.instanceId \in DOMAIN instances

\* the configuration the trigger ran with (a request registers it first)
EventConfig == instances[event.instanceId].config

Sent(notification) ==
    event.signal # <<>> /\ event.signal[1].notification = notification

\* the list of the instance's most recent successful run, empty if none
LastGoodList(instanceId) ==
    IF lastGood[instanceId] = <<>> THEN <<>> ELSE lastGood[instanceId][1]

\* httpGet takes the response for a failure of the API (494-498)
ApiFailure(response) ==
    response.status # 0 /\ response.status # 304 /\ ~Ok(response)

---------------------------------------------------------------------------
(* C1.  Whenever a fetch trigger ends in an error signal, the list attached *)
(* to it is the list of the most recent successful run of that instance     *)
(* (empty only if none has succeeded yet).                                  *)

C1_ErrorCarriesLastGood ==
    Sent("GITPUSHY_ERROR") =>
        event.signal[1].prs = LastGoodList(event.signal[1].instanceId)

---------------------------------------------------------------------------
(* C2.  No outbound request is issued for an instance with                  *)
(* backoffOnRateLimit enabled while the suppression timestamp is set and    *)
(* the current time is before it, runs already in flight included.          *)

C2_NoRequestWhileLimited ==
    event.fetched # <<>> => ~event.fetched[1].gated

---------------------------------------------------------------------------
(* C3.  A fetch trigger for an instance with backoffOnRateLimit enabled     *)
(* that starts while the guard is engaged emits exactly one error signal    *)
(* with the rate-limit message and issues no request, whether or not a      *)
(* token is configured (the guard is checked before the credential).        *)

C3_LimitedTriggerStops ==
    TriggerEvent /\ isRateLimited(EventConfig, backoffUntil, now) =>
        /\ event.signal =
              <<Signal("GITPUSHY_ERROR", event.instanceId, RateLimitMessage,
                       getCachedData(instances, event.instanceId))>>
        /\ event.fetched = <<>>
        /\ event.slot = 0

\* a rate-limited trigger of an instance that has no token and alerts on
C3_Witness ==
    /\ TriggerEvent
    /\ isRateLimited(EventConfig, backoffUntil, now)
    /\ ~Truthy(getAuthToken(EventConfig))
    /\ EventConfig.showOnAuthError
    /\ Sent("GITPUSHY_ERROR")
    /\ event.signal[1].message = RateLimitMessage

---------------------------------------------------------------------------
(* C4.  As claimed: after a response reporting zero remaining quota and a   *)
(* reset epoch T is processed, isLimited(t) is true for t < T*1000 and      *)
(* false from T*1000 on; any other response leaves the guard unchanged.     *)

Instants == { 500 * k : k \in 0..8 }

GuardIs(until, T) == \A t \in Instants : isLimited(until, t) <=> t < T * 1000

ReportsZero(response) ==
    response.remaining = "0" /\ response.reset # Null /\ ~IsNaN(response.reset)

C4_AnyResponseSetsGuard ==
    [][event'.type = "response" =>
          LET response == event'.response[1]
          IN  IF ReportsZero(response)
              THEN GuardIs(backoffUntil', NumberOf(response.reset))
              ELSE backoffUntil' = backoffUntil]_vars

(* C4, amended: the same of a response httpGet takes for a failure of the   *)
(* API (not ok, and not a 304 answering a cached entry); a response that is *)
(* ok, a 304 and a rejected fetch leave the guard unchanged.                *)

C4_FailureSetsGuard ==
    [][event'.type = "response" =>
          LET response == event'.response[1]
          IN  IF ApiFailure(response) /\ ReportsZero(response)
              THEN /\ backoffUntil' = NumberOf(response.reset) * 1000
                   /\ GuardIs(backoffUntil', NumberOf(response.reset))
              ELSE backoffUntil' = backoffUntil]_vars

\* a 403 with no quota left and reset at 2 s has been processed at time 0
C4_Witness ==
    /\ event.type = "response"
    /\ ApiFailure(event.response[1])
    /\ event.response[1].remaining = "0"
    /\ event.response[1].reset = "2"
    /\ backoffUntil = 2000
    /\ isLimited(backoffUntil, now)

---------------------------------------------------------------------------
(* C5.  Every registered instance has exactly one active timer, whose       *)
(* period is the updateIntervalMs of its stored configuration; a            *)
(* registration with an unchanged interval keeps the timer handle (neither  *)
(* cancelled nor restarted), one with a changed interval cancels the old    *)
(* timer and creates a new one.                                             *)

TimersOf(ivals, instanceId) == { h \in DOMAIN ivals : ivals[h].instanceId = instanceId }

OneTimerEach ==
    \A i \in DOMAIN instances :
        /\ i \in DOMAIN timers
        /\ TimersOf(intervals, i) = {timers[i].timer}
        /\ intervals[timers[i].timer].period = instances[i].config.updateIntervalMs
        /\ timers[i].interval = instances[i].config.updateIntervalMs

Registration == event'.type \in {"GITPUSHY_CONFIG", "GITPUSHY_FETCH"}

C5_OneTimerPerInstance ==
    [][/\ OneTimerEach'
       /\ Registration /\ event'.instanceId \in DOMAIN timers =>
             LET i == event'.instanceId
                 old == timers[i].timer
             IN  IF instances'[i].config.updateIntervalMs = timers[i].interval
                 THEN /\ timers'[i] = timers[i]
                      /\ old \in DOMAIN intervals'
                      /\ intervals'[old] = intervals[old]
                 ELSE /\ old \notin DOMAIN intervals'
                      /\ timers'[i].timer # old
                      /\ timers'[i].timer \notin DOMAIN intervals]_vars

\* an instance registered again with another interval: its first timer is
\* gone and its second runs at the new interval
C5_Witness ==
    /\ "module_1" \in DOMAIN timers
    /\ timers["module_1"].timer > 1
    /\ 1 \notin DOMAIN intervals
    /\ timers["module_1"].interval = 2000

---------------------------------------------------------------------------
(* C6.  With no credential resolvable and alerts.showOnAuthError true, a    *)
(* fetch trigger (that the guard lets through) emits exactly one error      *)
(* signal with the missing-token message, issues no request and leaves the  *)
(* HTTP cache, the metadata cache and the rate-limit state unchanged.       *)

NoCredential(config) ==
    /\ (config.token = Null \/ Trim(config.token) = "")
    /\ (config.tokenEnvVar = Null \/ ProcessEnv(config.tokenEnvVar) \in {Null, ""})

---------------------------------------------------------------------------
(* C7.  If a list-page or PR-detail fetch returns a response that is        *)
(* neither 2xx nor 304, or the transport fails, the run sends no data       *)
(* signal, the instance's last good result is not modified, the run issues  *)
(* no further request and exactly one error signal with that failure's      *)
(* message is sent.                                                         *)

RunFailure(response) == response.status = 0 \/ ApiFailure(response)

C7_FailureAbortsRun ==
    [][/\ event'.type = "response"
       /\ runs[event'.slot].req.kind \in {"list", "detail"}
       /\ RunFailure(event'.response[1])
       => LET run == runs[event'.slot]
              response == event'.response[1]
          IN  /\ event'.signal # <<>>
              /\ event'.signal[1].notification = "GITPUSHY_ERROR"
              /\ event'.signal[1].instanceId = run.instanceId
              /\ event'.signal[1].message =
                    IF response.status = 0 THEN <<response.text>>
                    ELSE <<"GitHub API error ", ToString(response.status), ": ",
                           response.text>>
              /\ instances' = instances
              /\ lastGood' = lastGood
              /\ runs'[event'.slot] = Idle
              /\ event'.fetched = <<>>
              /\ fetches' = fetches]_vars

\* the first target's list request of a two-target run has failed: the
\* second target was never asked for
C7_Witness ==
    /\ event.type = "response"
    /\ Sent("GITPUSHY_ERROR")
    /\ event.signal[1].instanceId = "module_2"
    /\ event.signal[1].message = <<"GitHub API error ", "500", ": ", "server error">>
    /\ fetches = 1
    /\ Suspended = {}

---------------------------------------------------------------------------
(* C10.  uniquePulls keeps exactly the first-encountered entry of each PR  *)
(* number, in the original order, drops every later entry with that number, *)
(* and returns as many entries as there are distinct numbers.              *)

FirstSeen(pulls) ==
    { i \in 1..Len(pulls) : \A j \in 1..(i - 1) : pulls[j].number # pulls[i].number }

C10_UniqueKeepsFirst ==
    r_pc \in {"unique", "filtered"} =>
        /\ Len(r_unique) = Cardinality({ r_pulls[i].number : i \in 1..Len(r_pulls) })
        /\ \A i \in FirstSeen(r_pulls) :
               r_unique[Cardinality({ j \in FirstSeen(r_pulls) : j <= i })] = r_pulls[i]

\* a list whose second entry repeats the first one's number under another
\* title, followed by a new number: the repeat is dropped, the rest kept
C10_Witness ==
    /\ r_pc = "unique"
    /\ Len(r_pulls) = 3
    /\ r_pulls[1].number = r_pulls[2].number
    /\ r_pulls[1].title # r_pulls[2].title
    /\ r_pulls[3].number # r_pulls[1].number
    /\ r_unique = <<r_pulls[1], r_pulls[3]>>

---------------------------------------------------------------------------
(* C8.  The output of a run has length <= maxTotal, is sorted by           *)
(* descending updated_at, holds the maxTotal most recently updated records *)
(* of the merged per-target lists, and records with equal updated_at keep  *)
(* the order they had in the merged sequence.                              *)

Time(pr) == DateGetTime(pr.updated_at)

\* the place of merged[i] in a stable descending order
Rank(merged, i) ==
    Cardinality({ j \in 1..Len(merged) :
                    \/ Time(merged[j]) > Time(merged[i])
                    \/ Time(merged[j]) = Time(merged[i]) /\ j <= i })

MergeDone == m_pc = 0 /\ r_pc = "idle"

C8_SortedTopM ==
    MergeDone =>
        /\ Len(m_out) = Min(m_limits.maxTotal, Len(m_results))
        /\ \A i \in 1..(Len(m_out) - 1) : Time(m_out[i]) >= Time(m_out[i + 1])
        /\ \A i \in 1..Len(m_results) :
               Rank(m_results, i) <= m_limits.maxTotal
                   => m_out[Rank(m_results, i)] = m_results[i]

\* a run whose merged list is longer than maxTotal, holds a tie between the
\* two targets and is not already in order
C8_Witness ==
    /\ MergeDone
    /\ Len(m_results) > m_limits.maxTotal
    /\ Len(m_out) >= 2
    /\ \E i \in 1..(Len(m_out) - 1) :
           /\ Time(m_out[i]) = Time(m_out[i + 1])
           /\ m_out[i].repo # m_out[i + 1].repo
    /\ m_out # SubSeq(m_results, 1, Len(m_out))

---------------------------------------------------------------------------
(* C9.  Each target contributes at most maxPerRepo records to the merged   *)
(* list, and the cut is made before the sort and the maxTotal cut: the     *)
(* output is the top maxTotal of the targets' first maxPerRepo records, so *)
(* a target's records beyond its own maxPerRepo displace nobody.           *)

Prefix(t) == SubSeq(m_prs[t], 1, Min(m_limits.maxPerRepo, Len(m_prs[t])))

\* the targets' prefixes in target order
CutMerged == Prefix(1) \o Prefix(2)

InOut(pr) == \E i \in 1..Len(m_out) : m_out[i] = pr

C9_PerRepoCutFirst ==
    /\ m_pc # 0 /\ r_pc = "idle" =>
          \A t \in 1..Len(MergeTargets) :
              LET mine == SelectSeq(m_results, LAMBDA pr : pr.repo = MergeTargets[t])
              IN  /\ Len(mine) <= m_limits.maxPerRepo
                  /\ t < m_pc => mine = Prefix(t)
    /\ MergeDone =>
          /\ \A t \in 1..Len(MergeTargets) :
                 Cardinality({ i \in 1..Len(m_out) : m_out[i].repo = MergeTargets[t] })
                     <= m_limits.maxPerRepo
          /\ \A i \in 1..Len(CutMerged) :
                 Rank(CutMerged, i) <= m_limits.maxTotal => InOut(CutMerged[i])

\* target 1 has more than maxPerRepo records, all newer than target 2's
\* record, and target 2's record is in the output all the same
C9_Witness ==
    /\ MergeDone
    /\ m_limits.maxPerRepo = 1
    /\ m_limits.maxTotal = 2
    /\ Len(m_prs[1]) = 2 /\ Len(m_prs[2]) >= 1
    /\ \A i \in 1..2 : Time(m_prs[1][i]) > Time(m_prs[2][1])
    /\ m_out = <<m_prs[1][1], m_prs[2][1]>>

---------------------------------------------------------------------------
(* C11.  When query.includeDrafts is false, no record of a run's output is  *)
(* a draft and no PR-detail request is issued for a draft pull request;     *)
(* when it is true, the drafts are retained: the run asks the details of    *)
(* every distinct pull request its lists returned.                          *)

DetailRuns == { s \in Suspended : runs[s].req.kind = "detail" }

Drafts(prs) == { k \in 1..Len(prs) : prs[k].draft }

Numbers(prs) == { prs[k].number : k \in 1..Len(prs) }

C11_DraftsFiltered ==
    /\ \A s \in DetailRuns :
          LET run == runs[s]
          IN  IF run.config.includeDrafts
              THEN Numbers(run.filtered) = Numbers(run.pulls)
              ELSE /\ Drafts(run.filtered) = {}
                   /\ ~run.filtered[run.di].draft
                   /\ run.req.url.number \in
                         Numbers(run.pulls) \ { run.pulls[k].number : k \in Drafts(run.pulls) }
                   /\ Numbers(run.filtered) =
                         { run.pulls[k].number :
                             k \in (1..Len(run.pulls)) \ Drafts(run.pulls) }
    /\ Sent("GITPUSHY_DATA") /\ ~event.config[1].includeDrafts =>
          Drafts(event.signal[1].prs) = {}

\* module_2 hides drafts: its list returned the draft PR 10 and PR 7, and
\* its data signal carries PR 7 alone
C11_Witness ==
    /\ Sent("GITPUSHY_DATA")
    /\ ~event.config[1].includeDrafts
    /\ Len(event.signal[1].prs) = 1
    /\ event.signal[1].prs[1].number = 7
    /\ \E k \in DOMAIN httpCache :
          /\ k.kind = "pulls"
          /\ httpCache[k].data.data = <<PR10, PR7>>

---------------------------------------------------------------------------
(* C12.  Mode all yields the empty branch set (one unfiltered list) and     *)
(* mode list with a non-empty list yields exactly that list, in order, both *)
(* without a metadata request; mode list with an empty list and the default *)
(* branch "main" (answered by the API or still valid in the metadata cache) *)
(* yields <<"main">>.                                                       *)

ModeOf(target) ==
    IF target.baseBranchesMode = Null THEN "defaultOnly" ELSE target.baseBranchesMode

ListEmpty(target) == ModeOf(target) = "list" /\ target.baseBranches = <<>>

\* the branches a suspended run fetches its current target's lists for
BranchesOf(run) == IF run.bases = <<Null>> THEN <<>> ELSE run.bases

MetaHasMain(target, t) ==
    /\ RepoKeyOf(target) \in DOMAIN repoMetaCache
    /\ repoMetaCache[RepoKeyOf(target)].defaultBranch = "main"
    /\ t - repoMetaCache[RepoKeyOf(target)].fetchedAt < 3600000

C12_BranchesByMode ==
    [][/\ \A s \in Suspended' :
             LET run == runs'[s]
                 target == RunTarget(run)
             IN  /\ ModeOf(target) = "all" =>
                        run.req.kind # "repo" /\ BranchesOf(run) = <<>>
                 /\ ModeOf(target) = "list" /\ target.baseBranches # <<>> =>
                        run.req.kind # "repo" /\ BranchesOf(run) = target.baseBranches
                 /\ run.req.kind = "list" =>
                        run.req.url.base = run.bases[run.bi]
       /\ event'.type = "response" /\ event'.slot \in Suspended' =>
             LET before == runs[event'.slot]
                 response == event'.response[1]
             IN  /\ before.req.kind = "repo"
                 /\ ListEmpty(RunTarget(before))
                 /\ response.status = 200
                 /\ response.body.default_branch = "main"
                 => BranchesOf(runs'[event'.slot]) = <<"main">>
       /\ event'.type \in {"GITPUSHY_FETCH", "timer"} /\ event'.slot \in Suspended' =>
             LET run == runs'[event'.slot]
             IN  /\ run.ti = 1
                 /\ ListEmpty(RunTarget(run))
                 /\ MetaHasMain(RunTarget(run), now)
                 => run.req.kind # "repo" /\ BranchesOf(run) = <<"main">>]_vars

\* a run of the target listing <<"main", "dev">> asks for its second list,
\* the one of base "dev", a run in mode all asks for its unfiltered list, and
\* no metadata was ever asked for
C12_Witness ==
    \E s \in Suspended :
        /\ RunTarget(runs[s]).baseBranches = <<"main", "dev">>
        /\ runs[s].bases = <<"main", "dev">>
        /\ runs[s].req.kind = "list"
        /\ runs[s].req.url.base = "dev"
        /\ repoMetaCache = <<>>
        /\ \E u \in Suspended :
              ModeOf(RunTarget(runs[u])) = "all" /\ runs[u].req.url.base = Null

---------------------------------------------------------------------------
(* C13.  Mode list with an empty list resolves as mode defaultOnly does for *)
(* the same target: when the target carries a default-branch override, the  *)
(* branch set is the singleton of the override and no repository-metadata   *)
(* request is issued.                                                       *)

C13_EmptyListUsesOverride ==
    \A s \in Suspended :
        LET run == runs[s]
            target == RunTarget(run)
        IN  ListEmpty(target) /\ target.defaultBranchOverride # Null =>
                /\ run.req.kind # "repo"
                /\ BranchesOf(run) = <<target.defaultBranchOverride>>

---------------------------------------------------------------------------
(* C14.  A failed repository-metadata request does not fail the run: the    *)
(* target resolves to the empty branch set and is fetched with one          *)
(* unfiltered list, the results of the targets before it are kept, and an   *)
(* error signal only ever follows a failed list or detail fetch.            *)

\* the lookups of the first page of the repository's unfiltered list
UnfilteredLookups(log, target) ==
    { k \in 1..Len(log) : log[k].cacheKey = ListCacheKey(RepoKeyOf(target), Null, 1) }

C14_MetadataFailureAbsorbed ==
    [][event'.type = "response" =>
          LET before == runs[event'.slot]
              response == event'.response[1]
          IN  /\ before.req.kind = "repo" /\ RunFailure(response) =>
                    /\ ~(event'.signal # <<>> /\
                          event'.signal[1].notification = "GITPUSHY_ERROR")
                    /\ repoMetaCache' = repoMetaCache
                    /\ Cardinality(UnfilteredLookups(event'.lookups, RunTarget(before))) = 1
                    /\ IF event'.slot \in Suspended'
                       THEN LET after == runs'[event'.slot]
                            IN  /\ after.ti = before.ti => after.bases = <<Null>>
                                /\ after.ti >= before.ti
                                /\ Len(after.results) >= Len(before.results)
                                /\ SubSeq(after.results, 1, Len(before.results))
                                      = before.results
                       ELSE event'.signal # <<>> /\
                            event'.signal[1].notification = "GITPUSHY_DATA"
              /\ event'.signal # <<>> /\ event'.signal[1].notification = "GITPUSHY_ERROR" =>
                    before.req.kind \in {"list", "detail"} /\ RunFailure(response)]_vars

\* module_2's run got its first target's list, failed to get the metadata
\* of its second, fetched that target's unfiltered list and sent its data
C14_Witness ==
    /\ event.type = "response"
    /\ Sent("GITPUSHY_DATA")
    /\ event.signal[1].instanceId = "module_2"
    /\ repoMetaCache = <<>>
    /\ ListCacheKey(RepoKeyOf(TargetWidgets), Null, 1) \in DOMAIN httpCache
    /\ ListCacheKey(RepoKeyOf(TargetGadgets), Null, 1) \in DOMAIN httpCache
    /\ fetches = 3

---------------------------------------------------------------------------
(* C15.  A lookup of a key whose entry is within its TTL returns the        *)
(* entry's payload, issues no request and leaves the entry unchanged; two   *)
(* such lookups with no write between them return the same payload.         *)

\* the entry of the key is fresh for the lookup
FreshFor(cache, lookup) ==
    /\ lookup.cacheKey \in DOMAIN cache
    /\ lookup.at - cache[lookup.cacheKey].fetchedAt < lookup.ttl

Misses(log) == { k \in 1..Len(log) : ~log[k].hit }

\* the handler wrote no cache entry but, at most, the one of its response
WritesOnly(key) ==
    /\ DOMAIN httpCache \subseteq DOMAIN httpCache'
    /\ \A c \in DOMAIN httpCache' \ key :
          c \in DOMAIN httpCache /\ httpCache'[c] = httpCache[c]

C15_FreshLookupIdempotent ==
    [][LET log == event'.lookups
       IN  /\ \A k \in 1..Len(log) :
                 FreshFor(httpCache', log[k]) =>
                     /\ log[k].hit
                     /\ log[k].returned = <<httpCache'[log[k].cacheKey].data>>
           /\ \A k \in 1..Len(log) : \A j \in 1..Len(log) :
                 log[k].hit /\ log[j].hit /\ log[k].cacheKey = log[j].cacheKey =>
                     log[k].returned = log[j].returned
           /\ Misses(log) = IF event'.fetched # <<>> THEN {Len(log)} ELSE {}
           /\ fetches' = fetches + Cardinality(Misses(log))
           /\ IF event'.type = "response"
              THEN WritesOnly({runs[event'.slot].req.cacheKey})
              ELSE WritesOnly({})]_vars

\* a trigger whose run looked the same list page up twice, and the same
\* details twice, all within the TTL: no request, and the data is sent
C15_Witness ==
    /\ TriggerEvent
    /\ Sent("GITPUSHY_DATA")
    /\ event.fetched = <<>>
    /\ Len(event.lookups) = 4
    /\ \A k \in 1..4 : event.lookups[k].hit
    /\ event.lookups[1].cacheKey = event.lookups[3].cacheKey
    /\ event.lookups[2].cacheKey = event.lookups[4].cacheKey
    /\ event.lookups[2].kind = "detail"

---------------------------------------------------------------------------
(* C16.  As claimed: a request for a key that has a stale entry presents    *)
(* the entry's validator; on a not-modified answer the stored payload is    *)
(* returned, the entry's timestamp is set and its payload and validator are *)
(* left as they are; no entry is ever removed.                              *)

\* the handler has issued a request: if the key has an entry, the request
\* is made with it and carries its validator
PresentsValidator ==
    event'.fetched # <<>> =>
        LET req == runs'[event'.slot].req
        IN  req.cacheKey \in DOMAIN httpCache' =>
                /\ req.cached = <<httpCache'[req.cacheKey]>>
                /\ req.ifNoneMatch = httpCache'[req.cacheKey].etag

NotModified ==
    /\ event'.type = "response"
    /\ event'.response[1].status = 304
    /\ event'.request[1].cached # <<>>

C16_NotModifiedReturnsStored ==
    [][/\ PresentsValidator
       /\ DOMAIN httpCache \subseteq DOMAIN httpCache'
       /\ NotModified =>
             LET key == event'.request[1].cacheKey
             IN  /\ event'.returned = <<httpCache'[key].data>>
                 /\ httpCache'[key].fetchedAt = event'.request[1].now
                 /\ httpCache'[key].data = httpCache[key].data
                 /\ httpCache'[key].etag = httpCache[key].etag
                 /\ WritesOnly({key})]_vars

(* C16, amended: what is returned is the payload of the entry the request   *)
(* was made with, and the timestamp is set (to the time the request was     *)
(* made) on that entry: if another run has replaced the key's entry since,  *)
(* the cache stays as it is.                                                *)

C16_NotModifiedReturnsRead ==
    [][/\ PresentsValidator
       /\ DOMAIN httpCache \subseteq DOMAIN httpCache'
       /\ NotModified =>
             LET key == event'.request[1].cacheKey
                 read == event'.request[1].cached[1]
             IN  /\ event'.returned = <<read.data>>
                 /\ key \in DOMAIN httpCache
                 /\ httpCache'[key].data = httpCache[key].data
                 /\ httpCache'[key].etag = httpCache[key].etag
                 /\ httpCache'[key].fetchedAt =
                       IF httpCache[key].ref = read.ref
                       THEN event'.request[1].now ELSE httpCache[key].fetchedAt
                 /\ WritesOnly({key})]_vars

\* a not-modified answer to a request whose entry another run has replaced
\* meanwhile: the payload returned is not the stored one
C16_Witness ==
    /\ event.type = "response"
    /\ event.response[1].status = 304
    /\ event.request[1].cached # <<>>
    /\ event.request[1].ifNoneMatch = "W/a"
    /\ event.returned # <<httpCache[event.request[1].cacheKey].data>>

---------------------------------------------------------------------------
(* C17.  The paginator follows the next links: the n-th page of a list is   *)
(* looked up under the key of page n, the pages' items are concatenated in  *)
(* page order, and no page is asked for after one whose response declares   *)
(* no next link.                                                            *)

IsPrefix(p, q) == Len(p) <= Len(q) /\ SubSeq(q, 1, Len(p)) = p

NextPageKey(key) == [key EXCEPT !.page = @ + 1]

\* a list page has been received (or revalidated)
PageReceived ==
    /\ event'.type = "response"
    /\ event'.request[1].kind = "list"
    /\ event'.returned # <<>>

C17_PaginatorFollowsNext ==
    [][/\ \A s \in Suspended' :
             LET run == runs'[s]
             IN  run.req.kind = "list" =>
                     /\ run.req.cacheKey =
                           ListCacheKey(RepoKeyOf(RunTarget(run)), run.bases[run.bi], run.page)
                     /\ run.req.url.page = run.page
                     /\ run.req.url.base = run.bases[run.bi]
       /\ PageReceived =>
             LET before == runs[event'.slot]
                 key == event'.request[1].cacheKey
                 payload == event'.returned[1]
                 log == event'.lookups
                 items == before.all \o payload.data
             IN  IF payload.nextUrl # NoUrl
                 THEN /\ log # <<>>
                      /\ log[1].cacheKey = NextPageKey(key)
                      /\ ~log[1].hit =>
                            /\ runs'[event'.slot].req.url = payload.nextUrl
                            /\ runs'[event'.slot].all = items
                            /\ runs'[event'.slot].pulls = before.pulls
                 ELSE /\ \A k \in 1..Len(log) : log[k].cacheKey # NextPageKey(key)
                      /\ event'.slot \in Suspended' /\
                         runs'[event'.slot].ti = before.ti =>
                            IsPrefix(before.pulls \o items, runs'[event'.slot].pulls)]_vars

\* a list of two pages has been fetched: PR 7 from the first page, PR 10
\* and PR 7 from the second, and the run asks for the details of PR 7
C17_Witness ==
    \E s \in Suspended :
        /\ runs[s].req.kind = "detail"
        /\ runs[s].pulls = <<PR7, PR10, PR7>>
        /\ event.type = "response"
        /\ event.request[1].kind = "list"
        /\ event.request[1].cacheKey.page = 2
        /\ event.returned[1].nextUrl = NoUrl

---------------------------------------------------------------------------
(* C18.  Every signal carries the identifier of the instance whose trigger  *)
(* started the run, and only the display instance of that identifier        *)
(* changes its list, error text or loaded flag on it.                       *)

\* the instance whose trigger started the handler's run
Originator ==
    IF event'.type = "response" THEN runs[event'.slot].instanceId ELSE event'.instanceId

C18_SignalsRouted ==
    [][/\ event'.signal # <<>> =>
             /\ event'.signal[1].instanceId = Originator
             /\ event'.type \in {"GITPUSHY_FETCH", "timer", "response"}
       /\ \A s \in Suspended' :
             s \in Suspended /\ ~(event'.type = "response" /\ event'.slot = s) =>
                 runs'[s].instanceId = runs[s].instanceId
       /\ \A s \in Suspended' :
             event'.slot = s => runs'[s].instanceId = Originator
       /\ \A i \in InstanceIds :
             display'[i] # display[i] =>
                 /\ event'.signal # <<>>
                 /\ event'.signal[1].instanceId = i
                 /\ Originator = i
       /\ \A i \in InstanceIds :
             event'.signal # <<>> /\ event'.signal[1].instanceId = i =>
                 /\ display'[i].loaded
                 /\ display'[i].prs = event'.signal[1].prs
                 /\ display'[i].error = event'.signal[1].message]_vars

\* both display instances are registered; module_2 shows its data, and an
\* error signal for module_1 has changed module_1 alone
C18_Witness ==
    /\ DOMAIN instances = InstanceIds
    /\ display["module_2"].loaded
    /\ display["module_2"].error = <<>>
    /\ Sent("GITPUSHY_ERROR")
    /\ event.signal[1].instanceId = "module_1"
    /\ display["module_1"].error = event.signal[1].message

---------------------------------------------------------------------------
(* C19.  A cached list page is served without a request only while its age  *)
(* is below refresh.listCacheTtlMs when that key is set, and below          *)
(* updateIntervalMs - 10000 when it is not.                                 *)

ListTtl(config) ==
    IF config.listCacheTtlMs # <<>> THEN config.listCacheTtlMs[1]
    ELSE config.updateIntervalMs - 10000

C19_ListTtlConfigurable ==
    \A k \in 1..Len(event.lookups) :
        LET lookup == event.lookups[k]
        IN  lookup.kind = "list" /\ lookup.hit =>
                lookup.at - httpCache[lookup.cacheKey].fetchedAt < ListTtl(event.config[1])

---------------------------------------------------------------------------
(* C20.  Once the suppression timestamp is set to S it is never cleared and *)
(* never replaced by a value smaller than S.                                *)

C20_BackoffNeverMovesBack ==
    [][backoffUntil # NoBackoff =>
          backoffUntil' # NoBackoff /\ backoffUntil' >= backoffUntil]_vars

---------------------------------------------------------------------------
(* C21.  Default-branch lookups are single-flighted: for each owner/repo at *)
(* most one repository-metadata request is in flight at any time, and none  *)
(* is issued within an hour of an earlier one that succeeded.               *)

MetaRuns == { s \in Suspended : runs[s].req.kind = "repo" }

C21_MetadataSingleFlight ==
    /\ \A s \in MetaRuns : \A u \in MetaRuns :
          runs[s].req.url.repo = runs[u].req.url.repo => s = u
    /\ \A s \in MetaRuns :
          LET req == runs[s].req
          IN  ~ /\ req.cacheKey \in DOMAIN httpCache
                /\ httpCache[req.cacheKey].ref < req.seq
                /\ req.now - httpCache[req.cacheKey].fetchedAt < 3600000

---------------------------------------------------------------------------
(* C22.  A fetch trigger that arrives while a run of the same instance is   *)
(* suspended starts a second run at once: it ends in a signal or in a new   *)
(* suspended run within the same handler, and the runs in flight are left   *)
(* as they are; a registration changes the stored configuration and the     *)
(* timer, never the configuration a run in flight works with.               *)

C22_RunsOverlap ==
    [][/\ \A s \in Suspended :
             ~(event'.type = "response" /\ event'.slot = s) => runs'[s] = runs[s]
       /\ event'.type = "response" /\ event'.slot \in Suspended' =>
             /\ runs'[event'.slot].config = runs[event'.slot].config
             /\ runs'[event'.slot].token = runs[event'.slot].token
             /\ runs'[event'.slot].instanceId = runs[event'.slot].instanceId
       /\ event'.type \in {"GITPUSHY_FETCH", "timer"} =>
             /\ event'.instanceId \in DOMAIN instances'
             /\ \/ event'.signal # <<>> /\ event'.slot = 0
                \/ /\ event'.signal = <<>>
                   /\ event'.slot \in Suspended' \ Suspended
                   /\ runs'[event'.slot].instanceId = event'.instanceId
                   /\ runs'[event'.slot].config = instances'[event'.instanceId].config]_vars

\* two runs of module_1 are in flight, the second started by a request that
\* registered another configuration: the first still works with the old one
C22_Witness ==
    /\ Suspended = {1, 2}
    /\ runs[1].instanceId = "module_1"
    /\ runs[2].instanceId = "module_1"
    /\ runs[2].config = instances["module_1"].config
    /\ runs[1].config # runs[2].config
    /\ runs[1].config.updateIntervalMs # runs[2].config.updateIntervalMs
    /\ event.type = "GITPUSHY_FETCH"

---------------------------------------------------------------------------
OneSignalFor(instanceId) ==
    /\ Len(event'.signal) = 1
    /\ event'.signal[1].instanceId = instanceId
    /\ event'.signal[1].notification \in {"GITPUSHY_DATA", "GITPUSHY_ERROR"}

\* how far a suspended run has come: target, then metadata < lists <
\* details, then branch and page or pull request
Position(run) ==
    run.ti * 1000
    + CASE run.req.kind = "repo" -> 0
        [] run.req.kind = "list" -> 100 + run.bi * 10 + run.page
        [] run.req.kind = "detail" -> 200 + run.di

SignalOrSuspend ==
    /\ event'.type \in {"GITPUSHY_FETCH", "timer"} =>
          \/ /\ OneSignalFor(event'.instanceId)
             /\ runs' = runs
          \/ /\ event'.signal = <<>>
             /\ event'.slot \in Suspended' \ Suspended
             /\ \A s \in (1..MaxRuns) \ {event'.slot} : runs'[s] = runs[s]
    /\ event'.type = "response" =>
          /\ event'.slot \in Suspended
          /\ \A s \in (1..MaxRuns) \ {event'.slot} : runs'[s] = runs[s]
          /\ \/ /\ OneSignalFor(runs[event'.slot].instanceId)
                /\ runs'[event'.slot] = Idle
             \/ /\ event'.signal = <<>>
                /\ event'.slot \in Suspended'
                /\ runs'[event'.slot].instanceId = runs[event'.slot].instanceId
                /\ Position(runs'[event'.slot]) > Position(runs[event'.slot])
    /\ event'.type \notin {"GITPUSHY_FETCH", "timer", "response"} =>
          event'.signal = <<>> /\ runs' = runs

(* C23.  Every request being answered in the end, each fetch trigger of a   *)
(* registered instance leads to exactly one signal for that instance: the   *)
(* trigger's handler either sends one signal or suspends one run, a run's   *)
(* handler either sends one signal and ends the run or suspends it further  *)
(* on in its targets, branches, pages and pull requests, nothing else sends *)
(* signals or ends runs, and every suspended run ends (while the requests   *)
(* explored last).                                                          *)
C23_OneSignalPerTrigger ==
    /\ [][SignalOrSuspend]_vars
    /\ \A s \in 1..MaxRuns : Answerable(s) ~> (runs[s] = Idle \/ fetches = FetchBudget)

\* the run a trigger of module_1 suspended has ended in its one signal while
\* a run of module_2 is still in flight
C23_Witness ==
    /\ event.type = "response"
    /\ Len(event.signal) = 1
    /\ event.signal[1].instanceId = "module_1"
    /\ runs[event.slot] = Idle
    /\ \E s \in Suspended : runs[s].instanceId = "module_2"
    /\ DOMAIN instances = InstanceIds

=============================================================================
